---- MODULE Spec2Model ----
(***************************************************************************)
(* ptracker (src/main.go): a command-line time tracker.  Every invocation  *)
(* of the program reads the wall clock, loads the whole snapshot from      *)
(* data.json, runs one command on the in-memory snapshot and, when the     *)
(* command mutated it, writes the whole snapshot back.                     *)
(*                                                                         *)
(* One step of the model is one invocation of main().                      *)
(***************************************************************************)
EXTENDS Integers, Sequences, FiniteSets, TLC

\* ------------------------------------------------------------------ bounds
\* Wall-clock readings are the instants 1..MaxTime.
MaxTime == 2
\* Log entries held by the whole store (the guards of start cap it).
MaxEntries == 2
\* Invocations begun in a run of concurrent invocations.
MaxRuns == 4

\* ------------------------------------------------------- program constants
\* The zero value of time.Time: End of a LogEntry that was never stopped.
\* time.Now() never returns it, so it is outside the instants.
ZeroTime == 0

Instants == 1..MaxTime
\* Project names given on the command line; compared with Go's ==, which is
\* case-sensitive, so "alpha" and "Alpha" are two names.
Names == {"alpha", "Alpha"}
\* What the user types at the delete prompt.
Replies == {"y", "Y", "n"}
\* os.WriteFile ends in one of: the file replaced; the open failed and the
\* file is as before; the file was truncated and the write failed.
SaveOutcomes == {"ok", "unwritten", "truncated"}
\* The processes that can run the program at the same time.
Procs == {1, 2}

VARIABLES
    file,      \* content of ~/.ptracker/data.json
    out,       \* what the last invocation printed
    saveErr,   \* what saveTracker returned to the last invocation
    rows,      \* rows printed by the last report
    totalAll,  \* grand total printed by the last report
    calls,     \* per name: the start and stop calls that were saved, with
               \* their readings of the clock, since the name was created
    procs,     \* per process: where its invocation is, what it read at its
               \* start (arguments, clock, snapshot) and what it printed
    runs       \* invocations begun by the processes

vars == <<file, out, saveErr, rows, totalAll, calls, procs, runs>>

\* ------------------------------------------------------------ data model
IsZero(t) == t = ZeroTime

\* time.Time.Sub / time.Since on readings without monotonic part.
Sub(end, start) == end - start

\* LogEntry{Start: now}: End is the zero time.
NewLogEntry(t) == [Start |-> t, End |-> ZeroTime]

\* Project{Name: name}: no logs, TotalTime 0.
NewProject(name) == [Name |-> name, Logs |-> <<>>, TotalTime |-> 0]

\* &TrackerData{}
EmptyTracker == [Projects |-> <<>>]

Last(s) == s[Len(s)]

\* len(logs) > 0 && logs[len(logs)-1].End.IsZero()
IsActive(p) == Len(p.Logs) > 0 /\ IsZero(Last(p.Logs).End)

\* projectExists: some project of the snapshot has that name.
projectExists(t, name) == \E i \in 1..Len(t.Projects) : t.Projects[i].Name = name

\* Mutant: names compared without regard to case.
Fold(name) == IF name = "Alpha" THEN "alpha" ELSE name

FindProjectFold(t, name) ==
    IF \E i \in 1..Len(t.Projects) : Fold(t.Projects[i].Name) = Fold(name)
    THEN CHOOSE i \in 1..Len(t.Projects) :
            /\ Fold(t.Projects[i].Name) = Fold(name)
            /\ \A j \in 1..(i - 1) : Fold(t.Projects[j].Name) # Fold(name)
    ELSE 0

\* The index the range loops stop at: the first project with that name,
\* 0 when the loop runs to its end.
FindProject(t, name) ==
    IF projectExists(t, name)
    THEN CHOOSE i \in 1..Len(t.Projects) :
            /\ t.Projects[i].Name = name
            /\ \A j \in 1..(i - 1) : t.Projects[j].Name # name
    ELSE 0

\* ------------------------------------------------------------------ store
\* json.MarshalIndent of the snapshot, by the struct tags.
MarshalEntry(e) == [start |-> e.Start, end |-> e.End]

MarshalProject(p) ==
    [name      |-> p.Name,
     logs      |-> [i \in 1..Len(p.Logs) |-> MarshalEntry(p.Logs[i])],
     totalTime |-> p.TotalTime]

Marshal(t) ==
    [projects |-> [i \in 1..Len(t.Projects) |-> MarshalProject(t.Projects[i])]]

\* json.Unmarshal into TrackerData.
UnmarshalEntry(j) == [Start |-> j.start, End |-> j.end]

UnmarshalProject(j) ==
    [Name      |-> j.name,
     Logs      |-> [i \in 1..Len(j.logs) |-> UnmarshalEntry(j.logs[i])],
     TotalTime |-> j.totalTime]

Unmarshal(d) ==
    [Projects |-> [i \in 1..Len(d.projects) |-> UnmarshalProject(d.projects[i])]]

NoDoc == [projects |-> <<>>]
AbsentFile == [kind |-> "absent", doc |-> NoDoc]
TruncatedFile == [kind |-> "truncated", doc |-> NoDoc]
JsonFile(t) == [kind |-> "json", doc |-> Marshal(t)]

\* loadTracker: no file is an empty snapshot; a file that does not parse
\* is an error.
loadTracker(f) ==
    CASE f.kind = "absent"    -> [err |-> FALSE, tracker |-> EmptyTracker]
      [] f.kind = "truncated" -> [err |-> TRUE,  tracker |-> EmptyTracker]
      [] OTHER                -> [err |-> FALSE, tracker |-> Unmarshal(f.doc)]

\* saveTracker: os.WriteFile of the marshalled snapshot.
saveTracker(f, t, io) ==
    CASE io = "ok"        -> JsonFile(t)
      [] io = "unwritten" -> f
      [] OTHER            -> TruncatedFile

EntryCount(t) ==
    LET RECURSIVE Sum(_)
        Sum(i) == IF i = 0 THEN 0 ELSE Len(t.Projects[i].Logs) + Sum(i - 1)
    IN Sum(Len(t.Projects))

\* --------------------------------------------------------------- commands
\* Each command is a function of the loaded snapshot: the snapshot it
\* leaves in memory, what it prints, and whether saveTracker is called.
Result(t, o, s) ==
    [tracker |-> t, out |-> o, save |-> s, rows |-> <<>>, totalAll |-> 0]

\* os.Args with a command and a name.
Cmd(cmd, n) == <<"ptracker", cmd, n>>

\* os.Args: the program, the command, and the project name when given.
ArgLists(cmd) == {<<"ptracker", cmd>>} \cup {<<"ptracker", cmd, n>> : n \in Names}

\* Mutant: the new project replaces the list instead of being appended.
doCreateReplace(t, a) ==
    IF Len(a) < 3 THEN Result(t, "name required", FALSE)
    ELSE IF projectExists(t, a[3]) THEN Result(t, "exists", FALSE)
    ELSE Result([t EXCEPT !.Projects = <<NewProject(a[3])>>], "created", TRUE)

\* Mutant: create without the projectExists check.
doCreateNoCheck(t, a) ==
    IF Len(a) < 3 THEN Result(t, "name required", FALSE)
    ELSE Result([t EXCEPT !.Projects = Append(@, NewProject(a[3]))],
                "created", TRUE)

\* case "create"
doCreate(t, a) ==
    IF Len(a) < 3 THEN Result(t, "name required", FALSE)
    ELSE IF projectExists(t, a[3]) THEN Result(t, "exists", FALSE)
    ELSE Result([t EXCEPT !.Projects = Append(@, NewProject(a[3]))],
                "created", TRUE)

\* Mutant: the projects after the deleted one are dropped with it.
RemoveAtAndAfter(s, i) == SubSeq(s, 1, i - 1)

\* append(tracker.Projects[:i], tracker.Projects[i+1:]...)
RemoveAt(s, i) == SubSeq(s, 1, i - 1) \o SubSeq(s, i + 1, Len(s))

\* case "delete"; r is the line read by fmt.Scanln at the prompt.
doDelete(t, a, r) ==
    IF Len(a) < 3 THEN Result(t, "name required", FALSE)
    ELSE LET i == FindProject(t, a[3]) IN
         IF i = 0 THEN Result(t, "not found", FALSE)
         ELSE IF r # "y" /\ r # "Y" THEN Result(t, "cancelled", FALSE)
         ELSE Result([t EXCEPT !.Projects = RemoveAt(@, i)], "deleted", TRUE)

\* Mutant: start without the check for an open last entry.
doStartNoCheck(t, a, n) ==
    IF Len(a) < 3 THEN Result(t, "name required", FALSE)
    ELSE LET i == FindProject(t, a[3]) IN
         IF i = 0 THEN Result(t, "not found", FALSE)
         ELSE Result([t EXCEPT !.Projects[i].Logs = Append(@, NewLogEntry(n))],
                     "started", TRUE)

\* Mutant: start on an open session restarts it at now.
doStartRestart(t, a, n) ==
    IF Len(a) < 3 THEN Result(t, "name required", FALSE)
    ELSE LET i == FindProject(t, a[3]) IN
         IF i = 0 THEN Result(t, "not found", FALSE)
         ELSE IF IsActive(t.Projects[i])
              THEN Result([t EXCEPT !.Projects[i].Logs[Len(t.Projects[i].Logs)] =
                                        NewLogEntry(n)],
                          "already active", TRUE)
         ELSE Result([t EXCEPT !.Projects[i].Logs = Append(@, NewLogEntry(n))],
                     "started", TRUE)

\* Mutant: start refused while any project has an open entry.
doStartOneAtATime(t, a, n) ==
    IF Len(a) < 3 THEN Result(t, "name required", FALSE)
    ELSE LET i == FindProject(t, a[3]) IN
         IF i = 0 THEN Result(t, "not found", FALSE)
         ELSE IF \E j \in 1..Len(t.Projects) : IsActive(t.Projects[j])
              THEN Result(t, "already active", FALSE)
         ELSE Result([t EXCEPT !.Projects[i].Logs = Append(@, NewLogEntry(n))],
                     "started", TRUE)

\* case "start"
doStart(t, a, n) ==
    IF Len(a) < 3 THEN Result(t, "name required", FALSE)
    ELSE LET i == FindProject(t, a[3]) IN
         IF i = 0 THEN Result(t, "not found", FALSE)
         ELSE IF IsActive(t.Projects[i]) THEN Result(t, "already active", FALSE)
         ELSE Result([t EXCEPT !.Projects[i].Logs = Append(@, NewLogEntry(n))],
                     "started", TRUE)

\* Mutant: TotalTime = dur instead of TotalTime += dur.
doStopOverwrite(t, a, n) ==
    IF Len(a) < 3 THEN Result(t, "name required", FALSE)
    ELSE LET i == FindProject(t, a[3]) IN
         IF i = 0 THEN Result(t, "not found", FALSE)
         ELSE IF ~IsActive(t.Projects[i]) THEN Result(t, "not active", FALSE)
         ELSE LET logs == t.Projects[i].Logs
                  dur  == Sub(n, Last(logs).Start)
              IN Result([t EXCEPT !.Projects[i].Logs[Len(logs)].End = n,
                                  !.Projects[i].TotalTime = dur],
                        "stopped", TRUE)

\* Mutant: a negative duration is clamped to zero.
doStopClamped(t, a, n) ==
    IF Len(a) < 3 THEN Result(t, "name required", FALSE)
    ELSE LET i == FindProject(t, a[3]) IN
         IF i = 0 THEN Result(t, "not found", FALSE)
         ELSE IF ~IsActive(t.Projects[i]) THEN Result(t, "not active", FALSE)
         ELSE LET logs == t.Projects[i].Logs
                  dur  == Sub(n, Last(logs).Start)
              IN Result([t EXCEPT !.Projects[i].Logs[Len(logs)].End = n,
                                  !.Projects[i].TotalTime =
                                      @ + (IF dur < 0 THEN 0 ELSE dur)],
                        "stopped", TRUE)

\* Mutant: an end earlier than the start is moved up to the start.
doStopEndClamped(t, a, n) ==
    IF Len(a) < 3 THEN Result(t, "name required", FALSE)
    ELSE LET i == FindProject(t, a[3]) IN
         IF i = 0 THEN Result(t, "not found", FALSE)
         ELSE IF ~IsActive(t.Projects[i]) THEN Result(t, "not active", FALSE)
         ELSE LET logs == t.Projects[i].Logs
                  end  == IF n < Last(logs).Start THEN Last(logs).Start ELSE n
                  dur  == Sub(end, Last(logs).Start)
              IN Result([t EXCEPT !.Projects[i].Logs[Len(logs)].End = end,
                                  !.Projects[i].TotalTime = @ + dur],
                        "stopped", TRUE)

\* Mutant: stop checks only that there are logs, not that the last is open.
doStopLenOnly(t, a, n) ==
    IF Len(a) < 3 THEN Result(t, "name required", FALSE)
    ELSE LET i == FindProject(t, a[3]) IN
         IF i = 0 THEN Result(t, "not found", FALSE)
         ELSE IF Len(t.Projects[i].Logs) = 0 THEN Result(t, "not active", FALSE)
         ELSE LET logs == t.Projects[i].Logs
                  dur  == Sub(n, Last(logs).Start)
              IN Result([t EXCEPT !.Projects[i].Logs[Len(logs)].End = n,
                                  !.Projects[i].TotalTime = @ + dur],
                        "stopped", TRUE)

\* case "stop"
doStop(t, a, n) ==
    IF Len(a) < 3 THEN Result(t, "name required", FALSE)
    ELSE LET i == FindProject(t, a[3]) IN
         IF i = 0 THEN Result(t, "not found", FALSE)
         ELSE IF ~IsActive(t.Projects[i]) THEN Result(t, "not active", FALSE)
         ELSE LET logs == t.Projects[i].Logs
                  end  == n
                  dur  == Sub(end, Last(logs).Start)
              IN Result([t EXCEPT !.Projects[i].Logs[Len(logs)].End = end,
                                  !.Projects[i].TotalTime = @ + dur],
                        "stopped", TRUE)

\* -------------------------------------------------------------- aggregator
\* Mutant: the open session is left out of the effective total.
effectiveTotalNoLive(p, since) == p.TotalTime

\* t := p.TotalTime; if the last entry is open, t += time.Since(its start)
effectiveTotal(p, since) ==
    IF IsActive(p) THEN p.TotalTime + Sub(since, Last(p.Logs).Start)
    ELSE p.TotalTime

\* The first loop of report: the sum of the effective totals.
GrandTotal(t, since) ==
    LET RECURSIVE Sum(_)
        Sum(i) == IF i = 0 THEN 0
                  ELSE Sum(i - 1) + effectiveTotal(t.Projects[i], since)
    IN Sum(Len(t.Projects))

\* Mutant: the share is computed whenever the grand total is not zero.
PercentNonZero(t, total) ==
    IF total # 0 THEN [num |-> t * 100, den |-> total] ELSE [num |-> 0, den |-> 1]

\* percent := 0.0; if totalAll > 0 { (t / totalAll) * 100 }, kept as a
\* fraction num/den.
Percent(t, total) ==
    IF total > 0 THEN [num |-> t * 100, den |-> total] ELSE [num |-> 0, den |-> 1]

\* The second loop of report: one row per project, in store order.
ReportRows(t, total, since) ==
    [i \in 1..Len(t.Projects) |->
        LET p == t.Projects[i]
            e == effectiveTotal(p, since)
        IN [Name |-> p.Name, Sessions |-> Len(p.Logs), T |-> e,
            Percent |-> Percent(e, total)]]

\* Mutant: report writes the live addition into TotalTime and saves.
doReportPersistLive(t, since1, since2) ==
    IF Len(t.Projects) = 0 THEN Result(t, "no projects", FALSE)
    ELSE [tracker  |-> [Projects |->
                           [i \in 1..Len(t.Projects) |->
                               [t.Projects[i] EXCEPT
                                   !.TotalTime = effectiveTotal(t.Projects[i], since1)]]],
          out      |-> "report", save |-> TRUE,
          rows     |-> ReportRows(t, GrandTotal(t, since1), since2),
          totalAll |-> GrandTotal(t, since1)]

\* case "report": since1 is the wall clock read by time.Since in the first
\* loop, since2 in the second loop.
doReport(t, since1, since2) ==
    IF Len(t.Projects) = 0 THEN Result(t, "no projects", FALSE)
    ELSE [tracker  |-> t, out |-> "report", save |-> FALSE,
          rows     |-> ReportRows(t, GrandTotal(t, since1), since2),
          totalAll |-> GrandTotal(t, since1)]

\* A command that only prints: the snapshot as loaded, the lines, no save.
Printed(t, o, lines) ==
    [tracker |-> t, out |-> o, save |-> FALSE, rows |-> lines, totalAll |-> 0]

\* case "help"
doHelp(t) == Printed(t, "help", <<>>)

\* case "list": the names, in store order.
doList(t) ==
    Printed(t, "list", [i \in 1..Len(t.Projects) |-> t.Projects[i].Name])

\* case "status": one line per Active project, with time.Since(start).
doStatus(t, since) ==
    LET act == SelectSeq(t.Projects, IsActive)
    IN Printed(t, "status",
               [i \in 1..Len(act) |->
                   [Name    |-> act[i].Name,
                    Start   |-> Last(act[i].Logs).Start,
                    Elapsed |-> Sub(since, Last(act[i].Logs).Start)]])

\* One line of stats: the duration of a closed entry is end - start, that
\* of an open entry time.Since(start).
StatsLine(e, since) ==
    [Start |-> e.Start, End |-> e.End,
     Dur   |-> IF IsZero(e.End) THEN Sub(since, e.Start) ELSE Sub(e.End, e.Start)]

\* case "stats"
doStats(t, a, since) ==
    IF Len(a) < 3 THEN Result(t, "name required", FALSE)
    ELSE LET i == FindProject(t, a[3]) IN
         IF i = 0 THEN Result(t, "not found", FALSE)
         ELSE Printed(t, "stats",
                      [j \in 1..Len(t.Projects[i].Logs) |->
                          StatsLine(t.Projects[i].Logs[j], since)])

\* ------------------------------------------------------------------- main
\* What one invocation reads from outside: os.Args, the clock at the top of
\* main, the line typed at the delete prompt, how os.WriteFile ends, and the
\* clock as time.Since reads it in the two loops of report.
Input(a, t, r, io, s1, s2) ==
    [args |-> a, now |-> t, reply |-> r, io |-> io, since1 |-> s1, since2 |-> s2]

\* What one invocation leaves: the file, the printed message, the error
\* saveTracker returned ("none" when it was not called), the in-memory
\* snapshot at exit, and the report.
Outcome(f, res, e) ==
    [file |-> f, out |-> res.out, saveErr |-> e, tracker |-> res.tracker,
     rows |-> res.rows, totalAll |-> res.totalAll]

SaveError(io) == IF io = "ok" THEN "nil" ELSE "error"

\* The end of a command: saveTracker is called when the command mutated the
\* snapshot, and what it returns is dropped.
Commit(f, res, io) ==
    IF res.save
    THEN Outcome(saveTracker(f, res.tracker, io), res, SaveError(io))
    ELSE Outcome(f, res, "none")

\* The switch on args[1], run on the loaded snapshot ld.
Dispatch(ld, in) ==
    IF ld.err THEN Result(EmptyTracker, "fatal", FALSE)
    ELSE LET cmd == in.args[2] IN
         CASE cmd = "create" -> doCreate(ld.tracker, in.args)
           [] cmd = "delete" -> doDelete(ld.tracker, in.args, in.reply)
           [] cmd = "start"  -> doStart(ld.tracker, in.args, in.now)
           [] cmd = "stop"   -> doStop(ld.tracker, in.args, in.now)
           [] cmd = "report" -> doReport(ld.tracker, in.since1, in.since2)
           [] cmd = "help"   -> doHelp(ld.tracker)
           [] cmd = "list"   -> doList(ld.tracker)
           [] cmd = "status" -> doStatus(ld.tracker, in.since1)
           [] cmd = "stats"  -> doStats(ld.tracker, in.args, in.since1)
           [] OTHER          -> Result(ld.tracker, "unknown command", FALSE)

\* main from the switch on: the command runs on the loaded snapshot ld, and
\* its snapshot is saved if it asks for it.
Handle(f, ld, in) ==
    CHOOSE o \in {Commit(f, res, in.io) : res \in {Dispatch(ld, in)}} : TRUE

\* main: no command ends before the load; a failed load ends in log.Fatal
\* (in Dispatch); otherwise the command is handled.
main(f, in) ==
    IF Len(in.args) < 2
    THEN Outcome(f, Result(EmptyTracker, "no command", FALSE), "none")
    ELSE Handle(f, loadTracker(f), in)

\* The saved start and stop calls of each name, as long as the file holds
\* them: a saved create or delete of the name starts its history afresh,
\* and a truncated file holds nothing.
Recorded(c, in, o) ==
    IF o.file.kind = "truncated" THEN [n \in Names |-> <<>>]
    ELSE IF o.saveErr # "nil" THEN c
    ELSE CASE o.out = "started" -> [c EXCEPT ![in.args[3]] = Append(@, <<"start", in.now>>)]
           [] o.out = "stopped" -> [c EXCEPT ![in.args[3]] = Append(@, <<"stop", in.now>>)]
           [] OTHER             -> [c EXCEPT ![in.args[3]] = <<>>]

\* -------------------------------------------------------------- processes
\* A process that is not running the program.
NoInput == Input(<<"ptracker", "">>, MaxTime, "", "ok", MaxTime, MaxTime)

NoLoad == [err |-> FALSE, tracker |-> EmptyTracker]

NoProc == [pc |-> "idle", in |-> NoInput, ld |-> NoLoad, out |-> "", saveErr |-> "none"]

\* Mutant: the command runs on the file as it is when the command is
\* reached, not on the snapshot loaded at the start.
HandledAfresh(p) == Dispatch(loadTracker(file), procs[p].in)

\* Mutant: start checks the snapshot loaded at the start and then appends
\* to the file as it is now.
HandledUnchecked(p) ==
    IF procs[p].in.args[2] = "start" /\ Dispatch(procs[p].ld, procs[p].in).save
    THEN doStartNoCheck(loadTracker(file).tracker, procs[p].in.args, procs[p].in.now)
    ELSE Dispatch(procs[p].ld, procs[p].in)

\* The switch of the invocation of process p, run on the snapshot that the
\* process loaded when it started.
Handled(p) == Dispatch(procs[p].ld, procs[p].in)

\* ---------------------------------------------------------------- actions
Init ==
    /\ file = AbsentFile
    /\ out = ""
    /\ saveErr = "none"
    /\ rows = <<>>
    /\ totalAll = 0
    /\ calls = [n \in Names |-> <<>>]
    /\ procs = [p \in Procs |-> NoProc]
    /\ runs = 0

\* One invocation of the program on the input in, ld being the load of the
\* file: the outcome of os.WriteFile is drawn when saveTracker is called.
Invoke(ld, in) ==
    \E res \in {Dispatch(ld, in)} :
    /\ EntryCount(res.tracker) <= MaxEntries
    /\ \E io \in (IF res.save THEN SaveOutcomes ELSE {in.io}) :
       \E o \in {Commit(file, res, io)} :
          /\ file' = o.file
          /\ out' = o.out
          /\ saveErr' = o.saveErr
          /\ rows' = o.rows
          /\ totalAll' = o.totalAll
          /\ calls' = Recorded(calls, in, o)
          /\ UNCHANGED <<procs, runs>>

\* Every invocation starts with the load of the file; the inputs a command
\* does not read are fixed.
Create ==
    \E ld \in {loadTracker(file)} :
    \E a \in ArgLists("create") :
        Invoke(ld, Input(a, MaxTime, "", "ok", MaxTime, MaxTime))

Delete ==
    \E ld \in {loadTracker(file)} :
    \E a \in ArgLists("delete"), r \in Replies :
        Invoke(ld, Input(a, MaxTime, r, "ok", MaxTime, MaxTime))

Start ==
    \E ld \in {loadTracker(file)} :
    \E a \in ArgLists("start"), t \in Instants :
        Invoke(ld, Input(a, t, "", "ok", MaxTime, MaxTime))

Stop ==
    \E ld \in {loadTracker(file)} :
    \E a \in ArgLists("stop"), t \in Instants :
        Invoke(ld, Input(a, t, "", "ok", MaxTime, MaxTime))

Report ==
    \E ld \in {loadTracker(file)} :
    \E s1 \in Instants, s2 \in Instants :
        Invoke(ld, Input(<<"ptracker", "report">>, MaxTime, "", "ok", s1, s2))

\* The commands that only print, and a command the switch does not know;
\* only stats reads a name.
ShowArgs ==
    ArgLists("stats") \cup {<<"ptracker", c>> : c \in {"help", "list", "status", "bogus"}}

Show ==
    \E ld \in {loadTracker(file)} :
    \E a \in ShowArgs, s1 \in Instants :
        Invoke(ld, Input(a, MaxTime, "", "ok", s1, MaxTime))

Next == Create \/ Delete \/ Start \/ Stop \/ Report \/ Show

Spec == Init /\ [][Next]_vars

\* ------------------------------------------------ concurrent invocations
\* Two processes run the program on the same data.json, which nothing
\* locks.  An invocation is two steps: it reads the clock and loads the
\* file; later it runs its command on what it loaded, saves and prints.
\* Each load and each save is one step and every write succeeds.
RaceInputs ==
    {Input(Cmd("create", n), MaxTime, "", "ok", MaxTime, MaxTime) : n \in Names}
    \cup {Input(Cmd("delete", n), MaxTime, r, "ok", MaxTime, MaxTime) :
              n \in Names, r \in {"y", "n"}}
    \cup {Input(Cmd(c, n), t, "", "ok", MaxTime, MaxTime) :
              c \in {"start", "stop"}, n \in Names, t \in Instants}

\* now := time.Now().UTC(); tracker, err := loadTracker(dataPath)
Begin(p) ==
    /\ procs[p].pc = "idle"
    /\ runs < MaxRuns
    /\ \E in \in RaceInputs :
          procs' = [procs EXCEPT ![p] =
                       [pc |-> "loaded", in |-> in, ld |-> loadTracker(file),
                        out |-> "", saveErr |-> "none"]]
    /\ runs' = runs + 1
    /\ UNCHANGED <<file, out, saveErr, rows, totalAll, calls>>

\* The switch, saveTracker when the command mutated the snapshot, the
\* message, and the end of the process.
Finish(p) ==
    /\ procs[p].pc = "loaded"
    /\ \E res \in {Handled(p)} :
       /\ EntryCount(res.tracker) <= MaxEntries
       /\ \E o \in {Commit(file, res, "ok")} :
          /\ file' = o.file
          /\ calls' = Recorded(calls, procs[p].in, o)
          /\ procs' = [procs EXCEPT ![p] =
                          [pc |-> "idle", in |-> procs[p].in, ld |-> NoLoad,
                           out |-> o.out, saveErr |-> o.saveErr]]
    /\ UNCHANGED <<out, saveErr, rows, totalAll, runs>>

NextRace == \E p \in Procs : Begin(p) \/ Finish(p)

SpecRace == Init /\ [][NextRace]_vars

\* ------------------------------------------------------------- properties
\* A value that a formula uses more than once is bound with
\* \A x \in {e}, which evaluates e once.

\* The persisted snapshot as the next invocation loads it.
Snapshot == loadTracker(file).tracker

\* What cmd on name n at reading t does to the snapshot loaded as ld, and
\* the outcome of the invocation when os.WriteFile ends as io.
Run(ld, cmd, n, t) == Dispatch(ld, Input(Cmd(cmd, n), t, "y", "ok", t, t))

Done(res, io) == Commit(file, res, io)

Exists(t, n) == \E i \in 1..Len(t.Projects) : t.Projects[i].Name = n

\* The sum of end - start over the closed entries of logs.
ClosedSum(logs) ==
    LET RECURSIVE Sum(_)
        Sum(i) == IF i = 0 THEN 0
                  ELSE Sum(i - 1) + (IF logs[i].End = ZeroTime THEN 0
                                     ELSE logs[i].End - logs[i].Start)
    IN Sum(Len(logs))

Idle(p) == Len(p.Logs) = 0 \/ p.Logs[Len(p.Logs)].End # ZeroTime
Active(p) == Len(p.Logs) > 0 /\ p.Logs[Len(p.Logs)].End = ZeroTime

\* Every project of t other than the one named n is in u, as it was.
OthersKept(t, n, u) ==
    \A i \in 1..Len(t.Projects) :
        t.Projects[i].Name # n =>
            \E j \in 1..Len(u.Projects) : u.Projects[j] = t.Projects[i]

\* A save that returned nil left a file that loads as the snapshot the
\* invocation had in memory.
SavedAs(o, io) ==
    io = "ok" => /\ o.saveErr = "nil"
                 /\ \A ld \in {loadTracker(o.file)} : ~ld.err /\ ld.tracker = o.tracker

\* C1: in every reachable snapshot each project's totalTime is the sum of
\* end - start over exactly its closed entries.
C1_TotalIsClosedSum ==
    \A s \in {Snapshot} :
    \A i \in 1..Len(s.Projects) :
        s.Projects[i].TotalTime = ClosedSum(s.Projects[i].Logs)

C1_Witness ==
    \E s \in {Snapshot} :
    \E i \in 1..Len(s.Projects) :
    \E p \in {s.Projects[i]} :
        /\ Len(p.Logs) = 2
        /\ p.Logs[1].End # ZeroTime /\ p.Logs[2].End # ZeroTime
        /\ p.Logs[1].End # p.Logs[1].Start
        /\ p.TotalTime # 0

\* C2: in every reachable snapshot only the last entry of a project can be
\* open, so each project has at most one open entry and is in exactly one
\* of Idle and Active.
C2_OneOpenEntryLast ==
    \A s \in {Snapshot} :
    \A i \in 1..Len(s.Projects) :
    \A p \in {s.Projects[i]} :
        /\ \A j \in 1..(Len(p.Logs) - 1) : p.Logs[j].End # ZeroTime
        /\ Cardinality({j \in 1..Len(p.Logs) : p.Logs[j].End = ZeroTime}) <= 1
        /\ Idle(p) # Active(p)
        /\ Active(p) = IsActive(p)

C2_Witness ==
    \E s \in {Snapshot} :
    \E i \in 1..Len(s.Projects) :
    \E p \in {s.Projects[i]} :
        /\ Len(p.Logs) = 2
        /\ p.Logs[1].End # ZeroTime
        /\ p.Logs[2].End = ZeroTime
        /\ out = "already active"

\* C3: start on an existing Idle project succeeds whatever the other
\* projects are: it appends one entry with start = now and no end, keeps the
\* earlier entries, the totalTime and every other project, and the project
\* is Active; a save that succeeded persisted exactly that.
C3_StartIdle ==
    \A ld \in {loadTracker(file)} :
    \A s \in {ld.tracker} :
    \A n \in Names :
    \A i \in {FindProject(s, n)} :
        (i # 0 /\ Idle(s.Projects[i])) =>
            \A t \in Instants :
            \A res \in {Run(ld, "start", n, t)} :
            \A io \in SaveOutcomes :
            \A o \in {Done(res, io)} :
            \A p \in {s.Projects[i]}, q \in {o.tracker.Projects[i]} :
               /\ o.out = "started"
               /\ Len(o.tracker.Projects) = Len(s.Projects)
               /\ q.Name = n
               /\ q.Logs = Append(p.Logs, [Start |-> t, End |-> ZeroTime])
               /\ q.TotalTime = p.TotalTime
               /\ Active(q)
               /\ OthersKept(s, n, o.tracker)
               /\ SavedAs(o, io)

C3_Witness ==
    \E s \in {Snapshot} :
    /\ out = "started"
    /\ saveErr = "nil"
    /\ Len(s.Projects) = 2
    /\ \A i \in 1..2 : Active(s.Projects[i])

\* C4: stop on an existing Active project sets end = now on the last
\* entry, adds now - start to totalTime whatever its sign, keeps the number
\* of entries, and the project is Idle; a save that succeeded persisted
\* exactly that.
C4_StopActive ==
    \A ld \in {loadTracker(file)} :
    \A s \in {ld.tracker} :
    \A n \in Names :
    \A i \in {FindProject(s, n)} :
        (i # 0 /\ Active(s.Projects[i])) =>
            \A t \in Instants :
            \A res \in {Run(ld, "stop", n, t)} :
            \A io \in SaveOutcomes :
            \A o \in {Done(res, io)} :
            \A p \in {s.Projects[i]}, q \in {o.tracker.Projects[i]} :
            \A k \in {Len(p.Logs)} :
               /\ o.out = "stopped"
               /\ Len(o.tracker.Projects) = Len(s.Projects)
               /\ q.Name = n
               /\ q.Logs = [p.Logs EXCEPT ![k] = [Start |-> p.Logs[k].Start, End |-> t]]
               /\ q.TotalTime = p.TotalTime + (t - p.Logs[k].Start)
               /\ Idle(q)
               /\ OthersKept(s, n, o.tracker)
               /\ SavedAs(o, io)

C4_Witness ==
    \E s \in {Snapshot} :
    /\ out = "stopped"
    /\ saveErr = "nil"
    /\ \E i \in 1..Len(s.Projects) :
       \E p \in {s.Projects[i]} :
          /\ Len(p.Logs) = 1
          /\ p.Logs[1].End # ZeroTime
          /\ p.Logs[1].End < p.Logs[1].Start
          /\ p.TotalTime < 0
    /\ \E i \in 1..Len(s.Projects) :
       \E p \in {s.Projects[i]} :
          /\ Len(p.Logs) = 1
          /\ p.Logs[1].End = p.Logs[1].Start
          /\ p.TotalTime = 0

\* C5: start on an Active project always signals AlreadyActive, appends no
\* entry, does not save, and leaves the snapshot in memory and the file as
\* they were.
C5_StartActiveRejected ==
    \A ld \in {loadTracker(file)} :
    \A s \in {ld.tracker} :
    \A n \in Names :
    \A i \in {FindProject(s, n)} :
        (i # 0 /\ Active(s.Projects[i])) =>
            \A t \in Instants :
            \A res \in {Run(ld, "start", n, t)} :
            \A io \in SaveOutcomes :
            \A o \in {Done(res, io)} :
               /\ o.out = "already active"
               /\ o.tracker = s
               /\ o.file = file
               /\ o.saveErr = "none"

C5_Witness ==
    \E s \in {Snapshot} :
    /\ out = "already active"
    /\ saveErr = "none"
    /\ \E i \in 1..Len(s.Projects) :
          /\ Active(s.Projects[i])
          /\ Len(s.Projects[i].Logs) = 1

\* C6: stop on an existing Idle project (no logs, or last entry closed)
\* always signals NotActive, does not save, and leaves the snapshot in
\* memory and the file as they were: a second stop neither adds the
\* duration again nor moves the end.
C6_StopIdleRejected ==
    \A ld \in {loadTracker(file)} :
    \A s \in {ld.tracker} :
    \A n \in Names :
    \A i \in {FindProject(s, n)} :
        (i # 0 /\ Idle(s.Projects[i])) =>
            \A t \in Instants :
            \A res \in {Run(ld, "stop", n, t)} :
            \A io \in SaveOutcomes :
            \A o \in {Done(res, io)} :
               /\ o.out = "not active"
               /\ o.tracker = s
               /\ o.file = file
               /\ o.saveErr = "none"

C6_Witness ==
    \E s \in {Snapshot} :
    /\ out = "not active"
    /\ saveErr = "none"
    /\ \E i \in 1..Len(s.Projects) :
       \E p \in {s.Projects[i]} :
          /\ Len(p.Logs) = 1
          /\ p.Logs[1].End # ZeroTime
          /\ p.TotalTime = p.Logs[1].End - p.Logs[1].Start
          /\ p.TotalTime # 0
    /\ \E i \in 1..Len(s.Projects) : Len(s.Projects[i].Logs) = 0

\* C7: start or stop with a name that no project of the snapshot has
\* (compared case-sensitively) signals NotFound, creates no project, does
\* not save, and leaves the snapshot in memory and the file as they were.
C7_UnknownNameRejected ==
    \A ld \in {loadTracker(file)} :
    \A n \in Names :
        (~ld.err /\ ~Exists(ld.tracker, n)) =>
            \A cmd \in {"start", "stop"}, t \in Instants :
            \A res \in {Run(ld, cmd, n, t)} :
            \A io \in SaveOutcomes :
            \A o \in {Done(res, io)} :
               /\ o.out = "not found"
               /\ ~Exists(o.tracker, n)
               /\ o.tracker = ld.tracker
               /\ o.file = file
               /\ o.saveErr = "none"

C7_Witness ==
    \E s \in {Snapshot} :
    /\ out = "not found"
    /\ saveErr = "none"
    /\ Exists(s, "alpha")
    /\ ~Exists(s, "Alpha")

\* C8: two consecutive saved start/stop pairs on a project leave it with
\* exactly the two closed entries they made and a totalTime that is the sum
\* of the two durations, whatever was run on other projects in between; and
\* create, start and stop on another name leave this project's record as
\* it was, in memory and in the saved file.
C8_TwoPairsAndFrame ==
    \A ld \in {loadTracker(file)} :
    \A s \in {ld.tracker} :
    /\ \A n \in Names :
          Len(calls[n]) = 4 =>
              \A i \in {FindProject(s, n)}, c \in {calls[n]} :
                 /\ i # 0
                 /\ <<c[1][1], c[2][1], c[3][1], c[4][1]>> = <<"start", "stop", "start", "stop">>
                 /\ s.Projects[i].Logs =
                        << [Start |-> c[1][2], End |-> c[2][2]],
                           [Start |-> c[3][2], End |-> c[4][2]] >>
                 /\ s.Projects[i].TotalTime =
                        (c[2][2] - c[1][2]) + (c[4][2] - c[3][2])
    /\ ~ld.err =>
          \A cmd \in {"create", "start", "stop"}, n \in Names, t \in Instants :
          \A o \in {Done(Run(ld, cmd, n, t), "ok")} :
              /\ OthersKept(s, n, o.tracker)
              /\ \A u \in {loadTracker(o.file).tracker} : OthersKept(s, n, u)

C8_Witness ==
    \E s \in {Snapshot} :
    /\ out = "created"
    /\ saveErr = "nil"
    /\ Len(calls["alpha"]) = 4
    /\ calls["alpha"][2][2] # calls["alpha"][1][2]
    /\ FindProject(s, "alpha") = 1
    /\ FindProject(s, "Alpha") = 2

\* C9 as claimed: in every reachable snapshot every closed entry has
\* end >= start.
C9_EndNotBeforeStart ==
    \A s \in {Snapshot} :
    \A i \in 1..Len(s.Projects) :
        \A j \in 1..Len(s.Projects[i].Logs) :
        \A e \in {s.Projects[i].Logs[j]} :
            e.End # ZeroTime => e.End >= e.Start

\* C9 as amended: a closed entry has end >= start exactly when the stop
\* that closed it read the clock not earlier than the start that opened it;
\* a stop that read an earlier now is recorded as given, with end < start.
C9_EndNotBeforeStartIfClockOrdered ==
    \A s \in {Snapshot} :
    \A i \in 1..Len(s.Projects) :
    \A p \in {s.Projects[i]} :
    \A c \in {calls[p.Name]} :
        /\ Len(c) = 2 * Len(p.Logs) - (IF Active(p) THEN 1 ELSE 0)
        /\ \A j \in 1..Len(p.Logs) :
              p.Logs[j].End # ZeroTime =>
                  /\ c[2 * j - 1][1] = "start"
                  /\ c[2 * j][1] = "stop"
                  /\ (p.Logs[j].End >= p.Logs[j].Start) <=> (c[2 * j][2] >= c[2 * j - 1][2])

C9_Witness ==
    \E s \in {Snapshot} :
    \E i \in 1..Len(s.Projects) :
    \E p \in {s.Projects[i]} :
        /\ Len(p.Logs) = 2
        /\ p.Logs[1].End # ZeroTime /\ p.Logs[1].End > p.Logs[1].Start
        /\ p.Logs[2].End # ZeroTime /\ p.Logs[2].End < p.Logs[2].Start
        /\ calls[p.Name][2][2] > calls[p.Name][1][2]
        /\ calls[p.Name][4][2] < calls[p.Name][3][2]

\* C10: the effective total of a project at an instant is its totalTime
\* plus, only if it is Active, the instant minus the start of the open
\* entry: for an Idle project (a freshly stopped one too) it is totalTime,
\* for an Active one it strictly increases with the instant; report shows
\* it in its rows and neither saves nor changes the file.
C10_EffectiveTotal ==
    \A ld \in {loadTracker(file)} :
    \A s \in {ld.tracker} :
    /\ \A i \in 1..Len(s.Projects), t \in Instants :
       \A p \in {s.Projects[i]} :
          /\ Idle(p) => effectiveTotal(p, t) = p.TotalTime
          /\ Active(p) =>
                /\ effectiveTotal(p, t) = p.TotalTime + (t - p.Logs[Len(p.Logs)].Start)
                /\ \A t2 \in Instants :
                      t < t2 => effectiveTotal(p, t) < effectiveTotal(p, t2)
    /\ ~ld.err =>
          \A s1 \in Instants, s2 \in Instants :
          \A o \in {Done(Dispatch(ld, Input(<<"ptracker", "report">>, s1, "", "ok", s1, s2)), "ok")} :
              /\ o.file = file
              /\ o.saveErr = "none"
              /\ o.tracker = s
              /\ \A i \in 1..Len(o.rows) :
                    /\ o.rows[i].Name = s.Projects[i].Name
                    /\ o.rows[i].T = effectiveTotal(s.Projects[i], s2)
    /\ out = "report" =>
          /\ Len(rows) = Len(s.Projects)
          /\ \A i \in 1..Len(rows) :
                Idle(s.Projects[i]) => rows[i].T = s.Projects[i].TotalTime

C10_Witness ==
    \E s \in {Snapshot} :
    /\ out = "report"
    /\ \E i \in 1..Len(s.Projects) :
          /\ Active(s.Projects[i])
          /\ rows[i].T > s.Projects[i].TotalTime
    /\ \E i \in 1..Len(s.Projects) :
          /\ Len(calls[s.Projects[i].Name]) = 2
          /\ Idle(s.Projects[i])
          /\ s.Projects[i].TotalTime # 0
          /\ rows[i].T = s.Projects[i].TotalTime

\* ------------------------------------------------------- report: figures
\* What report prints from the snapshot loaded as ld when the clock reads
\* s1 in the grand-total loop and s2 in the row loop.
ReportOf(ld, s1, s2) ==
    Dispatch(ld, Input(<<"ptracker", "report">>, s1, "", "ok", s1, s2))

\* The sum of the effective totals shown in the rows.
SumT(rs) ==
    LET RECURSIVE Sum(_)
        Sum(i) == IF i = 0 THEN 0 ELSE Sum(i - 1) + rs[i].T
    IN Sum(Len(rs))

\* The fraction pc is t / total * 100.
IsShare(pc, t, total) == pc.num * total = t * 100 * pc.den

IsZeroPercent(pc) == pc.num = 0

\* C11 as claimed: each row's percentage is its effective total over the
\* grand total times 100 whenever the grand total is not 0, and the
\* percentages are all 0 exactly when the grand total is 0.
C11_PercentOfTotal ==
    \A ld \in {loadTracker(file)} :
        ~ld.err =>
            \A s1 \in Instants, s2 \in Instants :
            \A o \in {ReportOf(ld, s1, s2)} :
                o.out = "report" =>
                    /\ o.totalAll # 0 =>
                          \A i \in 1..Len(o.rows) :
                              IsShare(o.rows[i].Percent, o.rows[i].T, o.totalAll)
                    /\ (\A i \in 1..Len(o.rows) : IsZeroPercent(o.rows[i].Percent))
                           <=> o.totalAll = 0

\* C11 as amended: each row's percentage is the effective total shown in
\* the row over the printed grand total times 100 when the grand total is
\* greater than 0, and is 0 in every row when the grand total is 0 or less.
C11_PercentOfPositiveTotal ==
    \A ld \in {loadTracker(file)} :
        ~ld.err =>
            \A s1 \in Instants, s2 \in Instants :
            \A o \in {ReportOf(ld, s1, s2)} :
                o.out = "report" =>
                    /\ Len(o.rows) = Len(ld.tracker.Projects)
                    /\ o.totalAll > 0 =>
                          \A i \in 1..Len(o.rows) :
                              /\ o.rows[i].Percent.den # 0
                              /\ IsShare(o.rows[i].Percent, o.rows[i].T, o.totalAll)
                    /\ o.totalAll <= 0 =>
                          \A i \in 1..Len(o.rows) : IsZeroPercent(o.rows[i].Percent)

C11_Witness ==
    /\ out = "report"
    /\ totalAll > 0
    /\ Len(rows) = 2
    /\ rows[1].T > 0 /\ rows[2].T > 0
    /\ IsShare(rows[1].Percent, 1, 2)
    /\ IsShare(rows[2].Percent, 1, 2)

\* C12: the percentages of one report sum to 100 when the grand total is
\* greater than 0, and are all 0 when the grand total is 0.  With exact
\* fractions over the same grand total, the sum is 100 exactly when the
\* effective totals of the rows sum to the grand total.
C12_PercentagesSumTo100 ==
    \A ld \in {loadTracker(file)} :
        ~ld.err =>
            \A s1 \in Instants, s2 \in Instants :
            \A o \in {ReportOf(ld, s1, s2)} :
                o.out = "report" =>
                    /\ o.totalAll > 0 =>
                          /\ \A i \in 1..Len(o.rows) :
                                 IsShare(o.rows[i].Percent, o.rows[i].T, o.totalAll)
                          /\ SumT(o.rows) * 100 = 100 * o.totalAll
                    /\ o.totalAll = 0 =>
                          \A i \in 1..Len(o.rows) : IsZeroPercent(o.rows[i].Percent)

\* C13: within one report the grand total is the sum of the effective
\* totals shown in the rows, whatever the clock does while the report is
\* produced.
C13_GrandTotalIsSumOfRows ==
    \A ld \in {loadTracker(file)} :
        ~ld.err =>
            \A s1 \in Instants, s2 \in Instants :
            \A o \in {ReportOf(ld, s1, s2)} :
                o.out = "report" => o.totalAll = SumT(o.rows)

\* --------------------------------------------------- read-side commands
\* The argument lists of the commands of the read side.
ReadArgs == ShowArgs \cup ArgLists("report") \cup ArgLists("list")

\* C14: help, list, status, stats and report never mutate the store:
\* whatever the snapshot, the arguments and the clock, the snapshot in
\* memory at exit is the one that was loaded, saveTracker is not called
\* and the file is the one that was there.
C14_ReadSideKeepsStore ==
    /\ \A ld \in {loadTracker(file)} :
       \A a \in ReadArgs, s1 \in Instants, s2 \in Instants :
       \A res \in {Dispatch(ld, Input(a, s1, "y", "ok", s1, s2))} :
          /\ ~res.save
          /\ ~ld.err => res.tracker = ld.tracker
          /\ \A io \in SaveOutcomes :
             \A o \in {Done(res, io)} :
                /\ o.file = file
                /\ o.saveErr = "none"
    /\ out \in {"help", "list", "status", "stats", "report", "no projects"} =>
          saveErr = "none"

C14_Witness ==
    \E s \in {Snapshot} :
    /\ out = "stats"
    /\ saveErr = "none"
    /\ Len(rows) = 2
    /\ rows[1].End # ZeroTime
    /\ rows[2].End = ZeroTime /\ rows[2].Dur # 0
    /\ \E i \in 1..Len(s.Projects) :
          /\ Active(s.Projects[i])
          /\ Len(s.Projects[i].Logs) = 2
          /\ s.Projects[i].TotalTime = ClosedSum(s.Projects[i].Logs)

\* ------------------------------------------------------------ the store
\* What an invocation prints when its command went through.
SuccessMessages == {"created", "deleted", "started", "stopped"}

\* C15: a save replaces the whole snapshot atomically: however a write
\* ends, a load never sees a half-written or empty file, so no invocation
\* leaves a file that the next load cannot parse.
C15_SaveIsAtomic == ~loadTracker(file).err

\* C16: when the save of create, delete, start or stop fails, the
\* invocation does not report the operation as successful.
C16_SaveFailureSurfaced == saveErr = "error" => out \notin SuccessMessages

\* ------------------------------------------------------ create and delete
\* C17: the names of the projects of every reachable snapshot are pairwise
\* distinct; create of a name that exists is rejected and leaves snapshot
\* and file as they were; create of a new name appends, after the existing
\* projects, one Idle project with no logs and totalTime 0.
C17_UniqueNamesAndCreate ==
    \A ld \in {loadTracker(file)} :
    \A s \in {ld.tracker} :
    /\ \A i \in 1..Len(s.Projects), j \in 1..Len(s.Projects) :
          i # j => s.Projects[i].Name # s.Projects[j].Name
    /\ ~ld.err =>
          \A n \in Names :
          \A res \in {Run(ld, "create", n, MaxTime)} :
          \A io \in SaveOutcomes :
          \A o \in {Done(res, io)} :
             /\ Exists(s, n) =>
                   /\ o.out = "exists"
                   /\ o.tracker = s
                   /\ o.file = file
                   /\ o.saveErr = "none"
             /\ ~Exists(s, n) =>
                   /\ o.out = "created"
                   /\ o.tracker.Projects =
                          Append(s.Projects, [Name |-> n, Logs |-> <<>>, TotalTime |-> 0])
                   /\ Idle(o.tracker.Projects[Len(s.Projects) + 1])
                   /\ SavedAs(o, io)

C17_Witness ==
    \E s \in {Snapshot} :
    /\ out = "exists"
    /\ saveErr = "none"
    /\ Len(s.Projects) = 2
    /\ s.Projects[1].Name # s.Projects[2].Name
    /\ Len(s.Projects[1].Logs) = 1
    /\ s.Projects[1].TotalTime # 0
    /\ Len(s.Projects[2].Logs) = 0
    /\ s.Projects[2].TotalTime = 0

\* The projects of t whose name is not n, in their order.
Without(t, n) ==
    LET Keep(p) == p.Name # n
    IN SelectSeq(t.Projects, Keep)

C19_LastWriterWins ==
    [][\A p \in Procs :
          (procs[p].pc = "loaded" /\ procs'[p].pc = "idle") =>
              \A res \in {Dispatch(procs[p].ld, procs[p].in)} :
                 /\ procs'[p].out = res.out
                 /\ res.save =>
                       /\ procs'[p].out \in SuccessMessages
                       /\ procs'[p].saveErr = "nil"
                       /\ loadTracker(file').tracker = res.tracker
                 /\ ~res.save => file' = file]_vars

\* Both invocations loaded before either saved (each started its project
\* on a snapshot where the other was Idle), both printed Started, and the
\* file has one of the two projects Active and the other without any log.
C19_Witness ==
    \E s \in {Snapshot} :
    /\ \A p \in Procs :
          /\ procs[p].pc = "idle"
          /\ procs[p].out = "started"
          /\ procs[p].saveErr = "nil"
    /\ procs[1].in.args[3] = "alpha"
    /\ procs[2].in.args[3] = "Alpha"
    /\ Len(s.Projects) = 2
    /\ \E i \in 1..2, j \in 1..2 :
          /\ Active(s.Projects[i])
          /\ Len(s.Projects[j].Logs) = 0

\* C20: under every interleaving of concurrent create, start, stop and
\* delete invocations, with each load and each save one step, the file
\* keeps the invariants of a snapshot: the names are pairwise distinct,
\* only the last entry of a project can be open, and totalTime is the sum
\* of end - start over the closed entries.
C20_SnapshotInvariantsUnderRaces ==
    \A s \in {Snapshot} :
    /\ ~loadTracker(file).err
    /\ \A i \in 1..Len(s.Projects), j \in 1..Len(s.Projects) :
          i # j => s.Projects[i].Name # s.Projects[j].Name
    /\ \A i \in 1..Len(s.Projects) :
       \A p \in {s.Projects[i]} :
          /\ \A k \in 1..(Len(p.Logs) - 1) : p.Logs[k].End # ZeroTime
          /\ p.TotalTime = ClosedSum(p.Logs)

\* Two stops of the same session raced, with different readings of the
\* clock: both printed Stopped, and the file has the session closed once,
\* with the duration of one of them.
C20_Witness ==
    \E s \in {Snapshot} :
    /\ \A p \in Procs :
          /\ procs[p].pc = "idle"
          /\ procs[p].out = "stopped"
          /\ procs[p].saveErr = "nil"
          /\ procs[p].in.args[3] = "alpha"
    /\ procs[1].in.now # procs[2].in.now
    /\ Len(s.Projects) = 1
    /\ Len(s.Projects[1].Logs) = 1
    /\ s.Projects[1].Logs[1].End # ZeroTime
    /\ s.Projects[1].TotalTime = s.Projects[1].Logs[1].End - s.Projects[1].Logs[1].Start
    /\ s.Projects[1].TotalTime # 0

====
